---- MODULE Spec2Model ----
(***************************************************************************)
(* Model of the two components of AutoDesktopVisionApi:                    *)
(*   app.py         the /detect endpoint (detect_objects)                  *)
(*   train_yolo.py  the training launcher (train_model)                    *)
(* Text that the code inspects (JSON strings, exception descriptions) is   *)
(* a sequence of one-character strings, so that `in`, lower() and slicing  *)
(* are computed as Python computes them.                                   *)
(***************************************************************************)
EXTENDS Integers, Sequences, FiniteSets

VARIABLES
    request,        \* parsed JSON body of the last /detect request (request.json)
    response,       \* outcome of detect_objects for that request
    baseExists,     \* os.path.exists(BASE_MODEL_NAME)
    dataExists,     \* os.path.exists(DATA_YAML_PATH)
    cudaAvailable,  \* torch.cuda.is_available()
    mpsAvailable,   \* torch.backends.mps.is_available()
    pc,             \* position of the run of train_model
    out,            \* lines printed by train_model, in order
    loadCalls,      \* number of YOLO(BASE_MODEL_NAME) calls made
    trainCalls,     \* number of model.train(...) calls made
    trainArgs,      \* keyword arguments of the model.train call
    results,        \* value returned by model.train
    exc,            \* exception in flight / caught by the except clause
    propagated      \* TRUE when an exception left train_model

vars == <<request, response, baseExists, dataExists, cudaAvailable,
          mpsAvailable, pc, out, loadCalls, trainCalls, trainArgs, results,
          exc, propagated>>

detectVars == <<request, response>>
trainVars == <<baseExists, dataExists, cudaAvailable, mpsAvailable, pc, out,
               loadCalls, trainCalls, trainArgs, results, exc, propagated>>

----------------------------------------------------------------------------
(* Text *)

UpperCase == <<"A", "B", "C", "D", "E", "F", "G", "H", "I", "J", "K", "L", "M", "N", "O", "P", "Q", "R", "S", "T", "U", "V", "W", "X", "Y", "Z">>
LowerCase == <<"a", "b", "c", "d", "e", "f", "g", "h", "i", "j", "k", "l", "m", "n", "o", "p", "q", "r", "s", "t", "u", "v", "w", "x", "y", "z">>

\* str.lower() on one character
LowerChar(c) ==
    IF \E i \in 1..Len(UpperCase) : UpperCase[i] = c
    THEN LowerCase[CHOOSE i \in 1..Len(UpperCase) : UpperCase[i] = c]
    ELSE c

\* str.lower()
Lower(s) == [i \in 1..Len(s) |-> LowerChar(s[i])]

\* Python's `sub in s` for two strings
StrContains(sub, s) ==
    \E k \in 0..(Len(s) - Len(sub)) :
        \A i \in 1..Len(sub) : s[k + i] = sub[i]

\* Python's s[:n]
SliceTo(s, n) == IF Len(s) <= n THEN s ELSE SubSeq(s, 1, n)

S_screenshot == <<"s", "c", "r", "e", "e", "n", "s", "h", "o", "t">>
S_other == <<"o", "t", "h", "e", "r">>
S_AAAA == <<"A", "A", "A", "A">>
S_notb64 == <<"!", "!">>
S_embedded == <<"a", " ", "s", "c", "r", "e", "e", "n", "s", "h", "o", "t", "!">>
S_screen == <<"s", "c", "r", "e", "e", "n">>
S_empty == <<>>
S_long == [i \in 1..32 |-> "A"]

----------------------------------------------------------------------------
(* app.py : JSON bodies *)

\* a value stored under a key of a JSON object
Value(t, chars) == [type |-> t, chars |-> chars]
NullValue == Value("null", S_empty)

FieldValues ==
    {Value("string", s) : s \in {S_empty, S_AAAA, S_notb64, S_long}}
    \cup {Value("number", S_empty), Value("boolean", S_empty), NullValue,
          Value("array", S_empty), Value("object", S_empty)}

\* a parsed request body (the value of request.json)
Body(t, keys, shot, items, chars) ==
    [type |-> t, keys |-> keys, shot |-> shot, items |-> items, chars |-> chars]

ObjectBodies ==
    {Body("object", keys, NullValue, <<>>, S_empty) :
        keys \in {{}, {S_other}, {S_screen}, {S_screen, S_other}}}
    \cup {Body("object", keys, v, <<>>, S_empty) :
        keys \in {{S_screenshot}, {S_screenshot, S_other}}, v \in FieldValues}

ArrayBodies ==
    {Body("array", {}, NullValue, items, S_empty) :
        items \in {<<>>, <<S_other>>, <<S_screenshot>>, <<S_other, S_screenshot>>,
                   <<S_embedded>>}}

StringBodies ==
    {Body("string", {}, NullValue, <<>>, s) :
        s \in {S_empty, S_other, S_screen, S_screenshot, S_embedded}}

ScalarBodies ==
    {Body(t, {}, NullValue, <<>>, S_empty) : t \in {"number", "boolean", "null"}}

JsonBodies == ObjectBodies \cup ArrayBodies \cup StringBodies \cup ScalarBodies

NoRequest == Body("none", {}, NullValue, <<>>, S_empty)

----------------------------------------------------------------------------
(* app.py : detect_objects *)

\* confidence is kept in hundredths (0.95 is 95)
Detection(label, confidence, box) ==
    [label |-> label, confidence |-> confidence, box |-> box]

mock_detections ==
    << Detection("button", 95, <<100, 150, 200, 180>>),
       Detection("text_input", 88, <<300, 250, 450, 280>>),
       Detection("scrollbar", 75, <<780, 50, 795, 500>>) >>

\* outcome of the handler: a (body, status) pair it returned, or an exception
\* that left it (raised # "")
Outcome(status, error, detections, raised, log) ==
    [status |-> status, error |-> error, detections |-> detections,
     raised |-> raised, log |-> log]

NoOutcome == Outcome(0, "", <<>>, "", S_empty)
Returned(status, error, detections, log) ==
    Outcome(status, error, detections, "", log)
Raised(e) == Outcome(0, "", <<>>, e, S_empty)

\* Python types on which `x in v` is defined
SupportsIn(v) == v.type \in {"object", "array", "string"}

\* 'screenshot' in request.json
HasScreenshot(json) ==
    CASE json.type = "object" -> S_screenshot \in json.keys
      [] json.type = "array"  -> \E i \in 1..Len(json.items) : json.items[i] = S_screenshot
      [] json.type = "string" -> StrContains(S_screenshot, json.chars)

\* Python types on which v[:30] is defined
SupportsSlice(v) == v.type \in {"string", "array"}

\* str(e) of the TypeError raised by v[:30]
SliceError(v) ==
    CASE v.type = "object"  -> "unhashable type: 'slice'"
      [] v.type = "number"  -> "'int' object is not subscriptable"
      [] v.type = "boolean" -> "'bool' object is not subscriptable"
      [] v.type = "null"    -> "'NoneType' object is not subscriptable"

\* variant: the field is base64-decoded before the mock answer is built
detect_objects_decoding(json) ==
    IF ~SupportsIn(json)
    THEN Raised("TypeError: argument is not iterable")
    ELSE IF ~HasScreenshot(json)
    THEN Returned(400, "No screenshot data provided", <<>>, S_empty)
    ELSE IF json.type # "object"
    THEN Raised("TypeError: indices must be integers")
    ELSE IF json.shot.type = "string" /\ json.shot.chars = S_notb64
    THEN Returned(500, "Incorrect padding", <<>>, S_empty)
    ELSE IF SupportsSlice(json.shot)
    THEN Returned(200, "", mock_detections, SliceTo(json.shot.chars, 30))
    ELSE Returned(500, SliceError(json.shot), <<>>, S_empty)

detect_objects(json) ==
    IF ~SupportsIn(json)
    THEN Raised("TypeError: argument is not iterable")
    ELSE IF ~HasScreenshot(json)
    THEN Returned(400, "No screenshot data provided", <<>>, S_empty)
    ELSE IF json.type # "object"
    THEN Raised("TypeError: indices must be integers")
    ELSE LET image_data_b64 == json.shot
         IN  IF SupportsSlice(image_data_b64)
             THEN Returned(200, "", mock_detections,
                           SliceTo(image_data_b64.chars, 30))
             ELSE Returned(500, SliceError(image_data_b64), <<>>, S_empty)

\* one POST /detect request handled from start to end
Detect ==
    \E json \in JsonBodies :
        /\ request' = json
        /\ response' = detect_objects(json)
        /\ UNCHANGED trainVars

----------------------------------------------------------------------------
(* train_yolo.py : configuration *)

\* a path is the sequence of its components; os.path.join appends
PathJoin(a, b) == a \o b

\* os.path.dirname(__file__)
ScriptDir == <<"AutoDesktopVisionApi">>

DATA_YAML_PATH ==
    PathJoin(ScriptDir,
             <<"..", "AutoDesktopApplication", "UI_Element_Dataset", "data.yaml">>)
BASE_MODEL_NAME == <<"yolov8n.pt">>
EPOCHS == 50
BATCH_SIZE == 8
IMG_SIZE == 640
PROJECT_NAME == "UI_Element_Detection"
EXPERIMENT_NAME == "run1"

\* variant: the Apple-silicon probe is consulted first
SelectDevice_mpsFirst(cuda, mps) ==
    IF mps THEN "mps" ELSE IF cuda THEN "cuda" ELSE "cpu"

\* the conditional expression that sets DEVICE from the two probes
SelectDevice(cuda, mps) ==
    IF cuda THEN "cuda" ELSE IF mps THEN "mps" ELSE "cpu"

DEVICE == SelectDevice(cudaAvailable, mpsAvailable)

----------------------------------------------------------------------------
(* train_yolo.py : what the external library can do *)

OOM_NEEDLE == <<"o", "u", "t", " ", "o", "f", " ", "m", "e", "m", "o", "r", "y">>
M_cuda_oom == <<"C", "U", "D", "A", " ", "o", "u", "t", " ", "o", "f", " ", "m", "e", "m", "o", "r", "y">>
M_upper_oom == <<"O", "U", "T", " ", "O", "F", " ", "M", "E", "M", "O", "R", "Y">>
M_mixed_oom == <<"O", "u", "t", " ", "O", "f", " ", "M", "e", "m", "o", "r", "y", ".">>
M_nospace == <<"o", "u", "t", "o", "f", "m", "e", "m", "o", "r", "y">>
M_memory == <<"m", "e", "m", "o", "r", "y">>
M_yaml == <<"b", "a", "d", " ", "y", "a", "m", "l">>

\* str(e) of the exceptions YOLO(...) and model.train(...) may raise
FaultMessages ==
    {M_cuda_oom, M_upper_oom, M_mixed_oom, M_nospace, M_memory, M_yaml, S_empty}

\* results.save_dir values model.train(...) may return
SaveDirs ==
    {<<PROJECT_NAME, EXPERIMENT_NAME>>,
     <<"runs", "detect", PROJECT_NAME, EXPERIMENT_NAME>>}

NoArgs ==
    [data |-> <<>>, epochs |-> 0, imgsz |-> 0, batch |-> 0, project |-> "",
     name |-> "", device |-> "", exist_ok |-> FALSE]
NoResults == [save_dir |-> <<>>]

----------------------------------------------------------------------------
(* train_yolo.py : train_model *)

\* one print(...) call: which statement printed, and the values it formatted
Line(tag, arg, n) == [line |-> tag, arg |-> arg, n |-> n]

Emit(lines) == out' = out \o lines

\* variant: the description is searched without lower()
IsOutOfMemory_caseSensitive(e) == StrContains(OOM_NEEDLE, e)

\* "out of memory" in str(e).lower()
IsOutOfMemory(e) == StrContains(OOM_NEEDLE, Lower(e))

\* lines 35-43: the configuration banner
Start ==
    /\ pc = "Configured"
    /\ Emit(<< Line("Starting training", <<>>, 0),
                Line("Data YAML", DATA_YAML_PATH, 0),
                Line("Base Model", BASE_MODEL_NAME, 0),
                Line("Epochs", <<>>, EPOCHS),
                Line("Batch Size", <<>>, BATCH_SIZE),
                Line("Image Size", <<>>, IMG_SIZE),
                Line("Project", <<PROJECT_NAME>>, 0),
                Line("Experiment", <<EXPERIMENT_NAME>>, 0),
                Line("Device", <<DEVICE>>, 0) >>)
    /\ pc' = "check_base"
    /\ UNCHANGED <<baseExists, dataExists, cudaAvailable, mpsAvailable,
                   loadCalls, trainCalls, trainArgs, results, exc, propagated>>
    /\ UNCHANGED detectVars

\* variant: the diagnostic is printed but the early return is missing
CheckBaseModel_noReturn ==
    /\ pc = "check_base"
    /\ IF ~baseExists
       THEN Emit(<< Line("Error: Base model not found", BASE_MODEL_NAME, 0),
                    Line("Please make sure the .pt file", <<>>, 0) >>)
       ELSE UNCHANGED out
    /\ pc' = "check_data"
    /\ UNCHANGED <<baseExists, dataExists, cudaAvailable, mpsAvailable,
                   loadCalls, trainCalls, trainArgs, results, exc, propagated>>
    /\ UNCHANGED detectVars

\* lines 46-49
CheckBaseModel ==
    /\ pc = "check_base"
    /\ IF ~baseExists
       THEN /\ Emit(<< Line("Error: Base model not found", BASE_MODEL_NAME, 0),
                        Line("Please make sure the .pt file", <<>>, 0) >>)
            /\ pc' = "FailedMissingFile"
       ELSE /\ pc' = "check_data"
            /\ UNCHANGED out
    /\ UNCHANGED <<baseExists, dataExists, cudaAvailable, mpsAvailable,
                   loadCalls, trainCalls, trainArgs, results, exc, propagated>>
    /\ UNCHANGED detectVars

\* variant: the diagnostic is printed but the early return is missing
CheckDataYaml_noReturn ==
    /\ pc = "check_data"
    /\ IF ~dataExists
       THEN Emit(<< Line("Error: data.yaml not found", DATA_YAML_PATH, 0),
                    Line("Please verify the DATA_YAML_PATH", <<>>, 0) >>)
       ELSE UNCHANGED out
    /\ pc' = "load"
    /\ UNCHANGED <<baseExists, dataExists, cudaAvailable, mpsAvailable,
                   loadCalls, trainCalls, trainArgs, results, exc, propagated>>
    /\ UNCHANGED detectVars

\* lines 52-55
CheckDataYaml ==
    /\ pc = "check_data"
    /\ IF ~dataExists
       THEN /\ Emit(<< Line("Error: data.yaml not found", DATA_YAML_PATH, 0),
                        Line("Please verify the DATA_YAML_PATH", <<>>, 0) >>)
            /\ pc' = "FailedMissingFile"
       ELSE /\ pc' = "load"
            /\ UNCHANGED out
    /\ UNCHANGED <<baseExists, dataExists, cudaAvailable, mpsAvailable,
                   loadCalls, trainCalls, trainArgs, results, exc, propagated>>
    /\ UNCHANGED detectVars

\* lines 61-62: YOLO(BASE_MODEL_NAME) returns a model
LoadModel ==
    /\ pc = "load"
    /\ loadCalls' = loadCalls + 1
    /\ Emit(<< Line("Successfully loaded base model", BASE_MODEL_NAME, 0) >>)
    /\ pc' = "train"
    /\ UNCHANGED <<baseExists, dataExists, cudaAvailable, mpsAvailable,
                   trainCalls, trainArgs, results, exc, propagated>>
    /\ UNCHANGED detectVars

\* variant: the model is loaded before the try block is entered
LoadModelRaises_unguarded ==
    /\ pc = "load"
    /\ loadCalls' = loadCalls + 1
    /\ \E e \in FaultMessages : exc' = e
    /\ propagated' = TRUE
    /\ pc' = "FailedException"
    /\ UNCHANGED <<baseExists, dataExists, cudaAvailable, mpsAvailable, out,
                   trainCalls, trainArgs, results>>
    /\ UNCHANGED detectVars

\* line 61: YOLO(BASE_MODEL_NAME) raises
LoadModelRaises ==
    /\ pc = "load"
    /\ loadCalls' = loadCalls + 1
    /\ \E e \in FaultMessages : exc' = e
    /\ pc' = "except"
    /\ UNCHANGED <<baseExists, dataExists, cudaAvailable, mpsAvailable, out,
                   trainCalls, trainArgs, results, propagated>>
    /\ UNCHANGED detectVars

\* lines 65-75: model.train(...) is entered
CallTrain ==
    /\ pc = "train"
    /\ Emit(<< Line("Starting model training...", <<>>, 0) >>)
    /\ trainCalls' = trainCalls + 1
    /\ trainArgs' = [data |-> DATA_YAML_PATH, epochs |-> EPOCHS,
                     imgsz |-> IMG_SIZE, batch |-> BATCH_SIZE,
                     project |-> PROJECT_NAME, name |-> EXPERIMENT_NAME,
                     device |-> DEVICE, exist_ok |-> TRUE]
    /\ pc' = "in_train"
    /\ UNCHANGED <<baseExists, dataExists, cudaAvailable, mpsAvailable,
                   loadCalls, results, exc, propagated>>
    /\ UNCHANGED detectVars

\* line 66: model.train(...) returns
TrainReturns ==
    /\ pc = "in_train"
    /\ \E d \in SaveDirs : results' = [save_dir |-> d]
    /\ pc' = "report"
    /\ UNCHANGED <<baseExists, dataExists, cudaAvailable, mpsAvailable, out,
                   loadCalls, trainCalls, trainArgs, exc, propagated>>
    /\ UNCHANGED detectVars

\* line 66: model.train(...) raises
TrainRaises ==
    /\ pc = "in_train"
    /\ \E e \in FaultMessages : exc' = e
    /\ pc' = "except"
    /\ UNCHANGED <<baseExists, dataExists, cudaAvailable, mpsAvailable, out,
                   loadCalls, trainCalls, trainArgs, results, propagated>>
    /\ UNCHANGED detectVars

\* lines 77-80
ReportSuccess ==
    /\ pc = "report"
    /\ Emit(<< Line("Training completed!", <<>>, 0),
                Line("Results saved to", results.save_dir, 0),
                Line("The best model is saved as",
                     PathJoin(results.save_dir, <<"weights", "best.pt">>), 0),
                Line("You can now use this 'best.pt' model", <<>>, 0) >>)
    /\ pc' = "Succeeded"
    /\ UNCHANGED <<baseExists, dataExists, cudaAvailable, mpsAvailable,
                   loadCalls, trainCalls, trainArgs, results, exc, propagated>>
    /\ UNCHANGED detectVars

\* variant: the except clause prints and re-raises
HandleException_reraise ==
    /\ pc = "except"
    /\ Emit(<< Line("An error occurred during training", exc, 0) >>)
    /\ propagated' = TRUE
    /\ pc' = "FailedException"
    /\ UNCHANGED <<baseExists, dataExists, cudaAvailable, mpsAvailable,
                   loadCalls, trainCalls, trainArgs, results, exc>>
    /\ UNCHANGED detectVars

\* variant: the except clause tries the training call once more
HandleException_retry ==
    /\ pc = "except"
    /\ Emit(<< Line("An error occurred during training", exc, 0),
               Line("Please check your dataset, configuration, and environment.", <<>>, 0) >>
            \o IF IsOutOfMemory(exc)
               THEN << Line("Suggestion: Try reducing BATCH_SIZE or IMG_SIZE", <<>>, 0) >>
               ELSE << >>)
    /\ pc' = IF trainCalls = 1 THEN "train" ELSE "FailedException"
    /\ UNCHANGED <<baseExists, dataExists, cudaAvailable, mpsAvailable,
                   loadCalls, trainCalls, trainArgs, results, exc, propagated>>
    /\ UNCHANGED detectVars

\* lines 82-86
HandleException ==
    /\ pc = "except"
    /\ Emit(<< Line("An error occurred during training", exc, 0),
                Line("Please check your dataset, configuration, and environment.", <<>>, 0) >>
             \o IF IsOutOfMemory(exc)
                THEN << Line("Suggestion: Try reducing BATCH_SIZE or IMG_SIZE", <<>>, 0) >>
                ELSE << >>)
    /\ pc' = "FailedException"
    /\ UNCHANGED <<baseExists, dataExists, cudaAvailable, mpsAvailable,
                   loadCalls, trainCalls, trainArgs, results, exc, propagated>>
    /\ UNCHANGED detectVars

TrainNext ==
    \/ Start
    \/ CheckBaseModel
    \/ CheckDataYaml
    \/ LoadModel
    \/ LoadModelRaises
    \/ CallTrain
    \/ TrainReturns
    \/ TrainRaises
    \/ ReportSuccess
    \/ HandleException

----------------------------------------------------------------------------

Init ==
    /\ request = NoRequest
    /\ response = NoOutcome
    /\ baseExists \in BOOLEAN
    /\ dataExists \in BOOLEAN
    /\ cudaAvailable \in BOOLEAN
    /\ mpsAvailable \in BOOLEAN
    /\ pc = "Configured"
    /\ out = <<>>
    /\ loadCalls = 0
    /\ trainCalls = 0
    /\ trainArgs = NoArgs
    /\ results = NoResults
    /\ exc = <<>>
    /\ propagated = FALSE

Next == Detect \/ TrainNext

Spec == Init /\ [][Next]_vars

\* train_model is one sequential call: it keeps running, and the blocking
\* model.train(...) call is assumed to return or raise
FairSpec == Spec /\ WF_vars(TrainNext)

----------------------------------------------------------------------------
(* Properties of detect_objects *)

Handled == request # NoRequest

\* the body is a JSON object with a 'screenshot' member
FieldPresent(json) == json.type = "object" /\ S_screenshot \in json.keys

MissingFieldAnswer ==
    [status |-> 400, error |-> "No screenshot data provided",
     detections |-> <<>>, raised |-> ""]

FixedDetections ==
    << [label |-> "button", confidence |-> 95, box |-> <<100, 150, 200, 180>>],
       [label |-> "text_input", confidence |-> 88, box |-> <<300, 250, 450, 280>>],
       [label |-> "scrollbar", confidence |-> 75, box |-> <<780, 50, 795, 500>>] >>

Answer(r) ==
    [status |-> r.status, error |-> r.error, detections |-> r.detections,
     raised |-> r.raised]

\* C1: every request whose JSON body has no 'screenshot' field, whatever the
\* shape of the body, is answered with status 400 and the body
\* {"error": "No screenshot data provided"}
C1_MissingFieldIs400 ==
    (Handled /\ ~FieldPresent(request)) => Answer(response) = MissingFieldAnswer

\* C2: every request whose 'screenshot' field is a string (empty and invalid
\* base64 included) is answered with status 200 and the fixed three
\* detections in the fixed order, whatever the string is
C2_StringFieldIsFixed200 ==
    (Handled /\ FieldPresent(request) /\ request.shot.type = "string")
        => Answer(response) =
             [status |-> 200, error |-> "", detections |-> FixedDetections,
              raised |-> ""]

C2_Witness ==
    /\ FieldPresent(request)
    /\ request.shot = Value("string", S_notb64)
    /\ response.status = 200

\* C3: a fault raised at any point of the handling, the test for and the read
\* of the 'screenshot' field included, is answered with status 500 and
\* {"error": <description>}; no fault leaves the handler
C3_FaultsAnsweredAs500 ==
    Handled =>
        /\ response.raised = ""
        /\ response.status \in {200, 400, 500}
        /\ response.status = 500 => response.error # ""

----------------------------------------------------------------------------
(* Properties of train_model *)

Terminal == {"FailedMissingFile", "FailedException", "Succeeded"}

HasLine(tag) == \E i \in 1..Len(out) : out[i].line = tag
HasLineWith(tag, arg) ==
    \E i \in 1..Len(out) : out[i].line = tag /\ out[i].arg = arg

BaseMissingReported == HasLineWith("Error: Base model not found", <<"yolov8n.pt">>)
DataMissingReported == HasLine("Error: data.yaml not found")
HintPrinted == HasLine("Suggestion: Try reducing BATCH_SIZE or IMG_SIZE")
GenericPrinted ==
    HasLine("Please check your dataset, configuration, and environment.")

\* C4: with the base-model file missing, the model is never loaded, training
\* is never called, and the run ends with the base-model diagnostic printed
C4_BaseModelMissing ==
    ~baseExists =>
        /\ loadCalls = 0
        /\ trainCalls = 0
        /\ pc \notin {"check_data", "load", "train", "in_train", "report", "except",
                      "Succeeded", "FailedException"}
        /\ pc \in Terminal => BaseMissingReported

C4_Witness == ~baseExists /\ dataExists /\ pc = "FailedMissingFile"

\* C5 as stated: with the dataset descriptor missing, whether or not the base
\* model is present, training is never called and the run ends with the
\* dataset-descriptor diagnostic printed
C5_DataYamlMissingAlwaysReported ==
    ~dataExists =>
        /\ trainCalls = 0
        /\ pc \in Terminal => DataMissingReported

\* C5 amended: with the dataset descriptor missing, whether or not the base
\* model is present, training is never called; the run ends with the
\* dataset-descriptor diagnostic printed when the base model is present, and
\* with the base-model diagnostic alone when it is missing too
C5_DataYamlMissing ==
    ~dataExists =>
        /\ loadCalls = 0
        /\ trainCalls = 0
        /\ pc \in Terminal =>
              /\ pc = "FailedMissingFile"
              /\ IF baseExists
                 THEN DataMissingReported /\ ~BaseMissingReported
                 ELSE BaseMissingReported /\ ~DataMissingReported

C5_Witness ==
    ~dataExists /\ baseExists /\ pc = "FailedMissingFile" /\ DataMissingReported

\* C6: the device is "cuda" when CUDA is available whatever the MPS probe
\* says, else "mps" when MPS is available, else "cpu"; that device is the one
\* given to the training call
C6_DevicePriority ==
    trainCalls > 0 =>
        /\ cudaAvailable => trainArgs.device = "cuda"
        /\ (~cudaAvailable /\ mpsAvailable) => trainArgs.device = "mps"
        /\ (~cudaAvailable /\ ~mpsAvailable) => trainArgs.device = "cpu"
        /\ HasLineWith("Device", <<trainArgs.device>>)

C6_Witness == cudaAvailable /\ mpsAvailable /\ trainCalls = 1

\* the state of the launcher's state machine at each position of the code
State ==
    CASE pc = "Configured" -> "Configured"
      [] pc \in {"check_base", "check_data"} -> "Validating"
      [] pc \in {"load", "train", "in_train", "report", "except"} -> "Training"
      [] pc \in Terminal -> pc

Transitions ==
    { <<"Configured", "Validating">>,
      <<"Validating", "FailedMissingFile">>,
      <<"Validating", "Training">>,
      <<"Training", "Succeeded">>,
      <<"Training", "FailedException">> }

\* C7: a run only takes the transitions Configured -> Validating ->
\* Failed(missing file) or Configured -> Validating -> Training ->
\* Succeeded | Failed(exception); it reaches a terminal state and never leaves
\* it, calls the training procedure at most once, and is Succeeded, with the
\* save directory and save_dir/weights/best.pt reported, only after the
\* training call returned
C7_StateMachine ==
    /\ [][State' = State \/ <<State, State'>> \in Transitions]_vars
    /\ [][(pc \in Terminal) => (pc' = pc)]_vars
    /\ [](trainCalls <= 1)
    /\ [](pc = "Succeeded" =>
            /\ trainCalls = 1
            /\ results # NoResults
            /\ HasLineWith("Results saved to", results.save_dir)
            /\ HasLineWith("The best model is saved as",
                           results.save_dir \o <<"weights", "best.pt">>))
    /\ [](results # NoResults => pc \in {"report", "Succeeded"})
    /\ <>(pc \in Terminal)

C7_Witness == pc = "Succeeded" /\ trainCalls = 1

\* C8: a fault raised by the training call is caught in train_model: its
\* description is printed, nothing is raised to the caller, and the run ends
\* without a second training call
C8_TrainingFaultCaught ==
    /\ ~propagated
    /\ trainCalls <= 1
    /\ (pc = "except" /\ trainCalls = 1) => ~HasLine("An error occurred during training")
    /\ (pc = "FailedException" /\ trainCalls = 1) =>
            HasLineWith("An error occurred during training", exc)

C8_Witness == pc = "FailedException" /\ trainCalls = 1 /\ exc = M_yaml

\* the descriptions that contain "out of memory" in some letter case
MemoryExhaustion == {M_cuda_oom, M_upper_oom, M_mixed_oom}

C10_LoadInsideGuardedRegion ==
    /\ loadCalls > 0 => baseExists /\ dataExists /\ loadCalls = 1
    /\ trainCalls > 0 =>
          /\ baseExists /\ dataExists
          /\ loadCalls = 1
          /\ HasLine("Successfully loaded base model")
    /\ (pc \in {"except", "FailedException"} /\ ~HasLine("Successfully loaded base model"))
          => trainCalls = 0 /\ ~propagated
    /\ (pc = "FailedException" /\ trainCalls = 0) =>
          /\ loadCalls = 1
          /\ HasLineWith("An error occurred during training", exc)
          /\ HintPrinted <=> exc \in MemoryExhaustion

C10_Witness ==
    pc = "FailedException" /\ trainCalls = 0 /\ exc = M_cuda_oom /\ HintPrinted

====
